---- MODULE Spec2Model ----
(***************************************************************************)
(* Model of the phone-api validator (package api): ValidatePhoneNumber and *)
(* its helpers, and the HTTP handler PhoneNumberLookup that renders the    *)
(* validator's outcome.                                                    *)
(*                                                                         *)
(* Phone numbers are sequences of one-character strings, so that slicing,  *)
(* prefix tests and concatenation are computed as the Go code computes     *)
(* them.  Country codes and error messages are strings.  A Go pointer or   *)
(* error value is a sequence of length at most one: Nil is <<>>.           *)
(* All modelled characters are ASCII, so len() in bytes equals the number  *)
(* of characters.  A Go slice expression that is out of range would panic; *)
(* here it is an evaluation error of SubSeq, which TLC reports.            *)
(***************************************************************************)
EXTENDS Integers, Sequences, FiniteSets, TLC

VARIABLES op, phoneNumber, countryCode, response, err, prev, httpStatus, httpBody,
          tables, calls

vars == <<op, phoneNumber, countryCode, response, err, prev, httpStatus, httpBody,
          tables, calls>>

(***************************************************************************)
(* Bounds of the explored inputs.                                          *)
(***************************************************************************)
MaxShort == 4

MaxFill == 14

NumCalls == 2

Nil == <<>>

New(msg) == <<msg>>

(***************************************************************************)
(* The country tables.                                                     *)
(***************************************************************************)
CountryPhoneLengths ==
  [US |-> <<10, 10>>, CA |-> <<10, 10>>, MX |-> <<10, 10>>, ES |-> <<9, 9>>,
   PT |-> <<9, 9>>, GB |-> <<10, 11>>, FR |-> <<10, 10>>, DE |-> <<10, 12>>,
   IT |-> <<9, 11>>, BR |-> <<10, 11>>]

CountryDialingCodes ==
  [US |-> <<"1">>, CA |-> <<"1">>, MX |-> <<"5", "2">>, ES |-> <<"3", "4">>,
   PT |-> <<"3", "5", "1">>, GB |-> <<"4", "4">>, FR |-> <<"3", "3">>,
   DE |-> <<"4", "9">>, IT |-> <<"3", "9">>, BR |-> <<"5", "5">>]

DialingCodeToCountry ==
  (<<"1">> :> "US") @@ (<<"5", "2">> :> "MX") @@ (<<"3", "4">> :> "ES") @@
  (<<"3", "5", "1">> :> "PT") @@ (<<"4", "4">> :> "GB") @@
  (<<"3", "3">> :> "FR") @@ (<<"4", "9">> :> "DE") @@ (<<"3", "9">> :> "IT") @@
  (<<"5", "5">> :> "BR")

\* the three package-level map variables, as one shared store
Tables ==
  [CountryPhoneLengths |-> CountryPhoneLengths,
   CountryDialingCodes |-> CountryDialingCodes,
   DialingCodeToCountry |-> DialingCodeToCountry]

(***************************************************************************)
(* Library functions of Go used by the validator.                          *)
(***************************************************************************)
\* strings.HasPrefix
HasPrefix(s, prefix) ==
  /\ Len(s) >= Len(prefix)
  /\ \A i \in 1..Len(prefix) : s[i] = prefix[i]

\* strings.Contains(s, " ")
Contains(s, ch) == \E i \in 1..Len(s) : s[i] = ch

\* strings.ReplaceAll(s, ch, "")
ReplaceAll(s, ch) == SelectSeq(s, LAMBDA x : x # ch)

\* strings.Split(s, ch): the parts between the occurrences of ch
RECURSIVE Split(_, _)
Split(s, ch) ==
  IF ~Contains(s, ch) THEN <<s>>
  ELSE LET i == CHOOSE k \in 1..Len(s) :
                  s[k] = ch /\ \A j \in 1..(k - 1) : s[j] # ch
       IN <<SubSeq(s, 1, i - 1)>> \o Split(SubSeq(s, i + 1, Len(s)), ch)

\* s[from:] and s[:to] of Go, with 0-based bounds
SliceFrom(s, from) == SubSeq(s, from + 1, Len(s))

SliceTo(s, to) == SubSeq(s, 1, to)

\* the character classes \d and \s of Go's regexp (RE2, ASCII)
ReDigit == {"0", "1", "2", "3", "4", "5", "6", "7", "8", "9"}

ReSpace == {"\t", "\n", "\f", "\r", " "}

(***************************************************************************)
(* The validator.                                                          *)
(***************************************************************************)
\* validateSpacing rejecting four parts or more
validateSpacing_AtLeast4(originalPhoneNumber) ==
  IF Contains(originalPhoneNumber, " ")
     /\ Len(Split(originalPhoneNumber, " ")) >= 4
  THEN New("invalid spacing pattern")
  ELSE Nil

validateSpacing(originalPhoneNumber) ==
  IF Contains(originalPhoneNumber, " ")
     /\ Len(Split(originalPhoneNumber, " ")) = 4
  THEN New("invalid spacing pattern")
  ELSE Nil

\* the regular expression ^[\d\s+]+$
validChars(s) ==
  /\ Len(s) >= 1
  /\ \A i \in 1..Len(s) : s[i] \in ReDigit \cup ReSpace \cup {"+"}

\* cleanPhoneNumber returning the number with its spaces
cleanPhoneNumber_KeepSpaces(number) ==
  IF ~validChars(number)
  THEN [cleaned |-> <<>>, err |-> New("phone number contains invalid characters")]
  ELSE [cleaned |-> number, err |-> Nil]

cleanPhoneNumber(number) ==
  IF ~validChars(number)
  THEN [cleaned |-> <<>>, err |-> New("phone number contains invalid characters")]
  ELSE [cleaned |-> ReplaceAll(number, " "), err |-> Nil]

\* hasDialingCode comparing the whole number instead of its prefix
hasDialingCode_Exact(number) ==
  \E dialingCode \in DOMAIN DialingCodeToCountry : number = dialingCode

hasDialingCode(number) ==
  \E dialingCode \in DOMAIN DialingCodeToCountry : HasPrefix(number, dialingCode)

extractDialingCode(number) ==
  IF Len(number) >= 3 /\ SliceTo(number, 3) \in DOMAIN DialingCodeToCountry
  THEN [dialingCode |-> SliceTo(number, 3), remaining |-> SliceFrom(number, 3),
        err |-> Nil]
  ELSE IF Len(number) >= 2 /\ SliceTo(number, 2) \in DOMAIN DialingCodeToCountry
  THEN [dialingCode |-> SliceTo(number, 2), remaining |-> SliceFrom(number, 2),
        err |-> Nil]
  ELSE IF Len(number) >= 1 /\ SliceTo(number, 1) \in DOMAIN DialingCodeToCountry
  THEN [dialingCode |-> SliceTo(number, 1), remaining |-> SliceFrom(number, 1),
        err |-> Nil]
  ELSE [dialingCode |-> <<>>, remaining |-> <<>>,
        err |-> New("unable to extract dialing code")]

\* splitNationalNumber with a 3-digit area code for GB whatever the length
splitNationalNumber_GB3(nationalNumber, country) ==
  IF Len(nationalNumber) >= 3 /\ country \in {"US", "CA", "MX", "GB", "DE"}
  THEN <<SliceTo(nationalNumber, 3), SliceFrom(nationalNumber, 3)>>
  ELSE IF Len(nationalNumber) >= 3 /\ country \in {"ES", "PT", "FR", "IT", "BR"}
  THEN <<SliceTo(nationalNumber, 2), SliceFrom(nationalNumber, 2)>>
  ELSE <<<<>>, nationalNumber>>

splitNationalNumber(nationalNumber, country) ==
  IF Len(nationalNumber) >= 3 /\ country \in {"US", "CA", "MX"}
  THEN <<SliceTo(nationalNumber, 3), SliceFrom(nationalNumber, 3)>>
  ELSE IF Len(nationalNumber) >= 3 /\ country \in {"ES", "PT", "FR", "IT", "BR"}
  THEN <<SliceTo(nationalNumber, 2), SliceFrom(nationalNumber, 2)>>
  ELSE IF Len(nationalNumber) >= 3 /\ country = "GB"
  THEN IF Len(nationalNumber) >= 4
       THEN <<SliceTo(nationalNumber, 4), SliceFrom(nationalNumber, 4)>>
       ELSE <<SliceTo(nationalNumber, 3), SliceFrom(nationalNumber, 3)>>
  ELSE IF Len(nationalNumber) >= 3 /\ country = "DE"
  THEN <<SliceTo(nationalNumber, 3), SliceFrom(nationalNumber, 3)>>
  ELSE <<<<>>, nationalNumber>>

ParseError(msg) ==
  [countryCode |-> "", areaCode |-> <<>>, localNumber |-> <<>>, err |-> New(msg)]

ParseSplit(country, nationalNumber) ==
  LET split == splitNationalNumber(nationalNumber, country)
  IN [countryCode |-> country, areaCode |-> split[1], localNumber |-> split[2],
      err |-> Nil]

\* parsePhoneNumber preferring a supplied country code to a bare dialing code
parsePhoneNumber_PreferSupplied(number, providedCountryCode) ==
  LET hasPlus == HasPrefix(number, <<"+">>)
      digits == IF hasPlus THEN SliceFrom(number, 1) ELSE number
  IN IF hasPlus \/ (providedCountryCode = "" /\ hasDialingCode(digits))
     THEN LET x == extractDialingCode(digits)
          IN IF x.err # Nil THEN ParseError(x.err[1])
             ELSE IF x.dialingCode \notin DOMAIN DialingCodeToCountry
             THEN ParseError("unsupported country dialing code")
             ELSE ParseSplit(DialingCodeToCountry[x.dialingCode], x.remaining)
     ELSE IF providedCountryCode = ""
     THEN ParseError("countryCode is required for numbers without country code")
     ELSE ParseSplit(providedCountryCode, digits)

\* parsePhoneNumber without the check of an empty supplied country code
parsePhoneNumber_NoRequired(number, providedCountryCode) ==
  LET hasPlus == HasPrefix(number, <<"+">>)
      digits == IF hasPlus THEN SliceFrom(number, 1) ELSE number
  IN IF hasPlus \/ hasDialingCode(digits)
     THEN LET x == extractDialingCode(digits)
          IN IF x.err # Nil THEN ParseError(x.err[1])
             ELSE IF x.dialingCode \notin DOMAIN DialingCodeToCountry
             THEN ParseError("unsupported country dialing code")
             ELSE ParseSplit(DialingCodeToCountry[x.dialingCode], x.remaining)
     ELSE ParseSplit(providedCountryCode, digits)

parsePhoneNumber(number, providedCountryCode) ==
  LET hasPlus == HasPrefix(number, <<"+">>)
      digits == IF hasPlus THEN SliceFrom(number, 1) ELSE number
  IN IF hasPlus \/ hasDialingCode(digits)
     THEN LET x == extractDialingCode(digits)
          IN IF x.err # Nil THEN ParseError(x.err[1])
             ELSE IF x.dialingCode \notin DOMAIN DialingCodeToCountry
             THEN ParseError("unsupported country dialing code")
             ELSE ParseSplit(DialingCodeToCountry[x.dialingCode], x.remaining)
     ELSE IF providedCountryCode = ""
     THEN ParseError("countryCode is required for numbers without country code")
     ELSE ParseSplit(providedCountryCode, digits)

\* validateCountryCode rejecting only codes that are too long
validateCountryCode_TooLong(country) ==
  IF Len(country) > 2
  THEN New("country code must be 2 characters (ISO 3166-1 alpha-2)")
  ELSE IF country \notin DOMAIN CountryPhoneLengths
  THEN New("unsupported country code")
  ELSE Nil

validateCountryCode(country) ==
  IF Len(country) # 2
  THEN New("country code must be 2 characters (ISO 3166-1 alpha-2)")
  ELSE IF country \notin DOMAIN CountryPhoneLengths
  THEN New("unsupported country code")
  ELSE Nil

\* validatePhoneLength with an exclusive lower bound
validatePhoneLength_Strict(nationalNumber, country) ==
  IF country \notin DOMAIN CountryPhoneLengths
  THEN New("unsupported country code")
  ELSE LET minLength == CountryPhoneLengths[country][1]
           maxLength == CountryPhoneLengths[country][2]
           actualLength == Len(nationalNumber)
       IN IF actualLength <= minLength \/ actualLength > maxLength
          THEN New("phone number length is invalid for country " \o country)
          ELSE Nil

validatePhoneLength(nationalNumber, country) ==
  IF country \notin DOMAIN CountryPhoneLengths
  THEN New("unsupported country code")
  ELSE LET minLength == CountryPhoneLengths[country][1]
           maxLength == CountryPhoneLengths[country][2]
           actualLength == Len(nationalNumber)
       IN IF actualLength < minLength \/ actualLength > maxLength
          THEN New("phone number length is invalid for country " \o country)
          ELSE Nil

\* formatPhoneNumber leaving out the area code
formatPhoneNumber_NoArea(country, areaCode, localNumber) ==
  <<"+">> \o CountryDialingCodes[country] \o localNumber

formatPhoneNumber(country, areaCode, localNumber) ==
  <<"+">> \o CountryDialingCodes[country] \o areaCode \o localNumber

Failure(e) == [response |-> Nil, err |-> e]

\* ValidatePhoneNumber checking the characters before the spacing
ValidatePhoneNumber_CharsFirst(number, providedCountryCode) ==
  IF number = <<>> THEN Failure(New("phoneNumber is required"))
  ELSE LET c == cleanPhoneNumber(number)
       IN IF c.err # Nil THEN Failure(c.err)
          ELSE IF validateSpacing(number) # Nil THEN Failure(validateSpacing(number))
          ELSE LET p == parsePhoneNumber(c.cleaned, providedCountryCode)
               IN IF p.err # Nil THEN Failure(p.err)
                  ELSE IF validateCountryCode(p.countryCode) # Nil
                  THEN Failure(validateCountryCode(p.countryCode))
                  ELSE IF validatePhoneLength(p.areaCode \o p.localNumber,
                                              p.countryCode) # Nil
                  THEN Failure(validatePhoneLength(p.areaCode \o p.localNumber,
                                                   p.countryCode))
                  ELSE [response |->
                          <<[PhoneNumber |-> formatPhoneNumber(p.countryCode,
                                               p.areaCode, p.localNumber),
                             CountryCode |-> p.countryCode,
                             AreaCode |-> p.areaCode,
                             LocalPhoneNumber |-> p.localNumber]>>,
                        err |-> Nil]

ValidatePhoneNumber(number, providedCountryCode) ==
  IF number = <<>> THEN Failure(New("phoneNumber is required"))
  ELSE IF validateSpacing(number) # Nil THEN Failure(validateSpacing(number))
  ELSE LET c == cleanPhoneNumber(number)
       IN IF c.err # Nil THEN Failure(c.err)
          ELSE LET p == parsePhoneNumber(c.cleaned, providedCountryCode)
               IN IF p.err # Nil THEN Failure(p.err)
                  ELSE IF validateCountryCode(p.countryCode) # Nil
                  THEN Failure(validateCountryCode(p.countryCode))
                  ELSE IF validatePhoneLength(p.areaCode \o p.localNumber,
                                              p.countryCode) # Nil
                  THEN Failure(validatePhoneLength(p.areaCode \o p.localNumber,
                                                   p.countryCode))
                  ELSE [response |->
                          <<[PhoneNumber |-> formatPhoneNumber(p.countryCode,
                                               p.areaCode, p.localNumber),
                             CountryCode |-> p.countryCode,
                             AreaCode |-> p.areaCode,
                             LocalPhoneNumber |-> p.localNumber]>>,
                        err |-> Nil]

(***************************************************************************)
(* The HTTP handler.                                                       *)
(***************************************************************************)
\* errMsg[:30] == "phone number length is invalid": of the messages the
\* validator produces, exactly those built by validatePhoneLength, which are
\* the 43-character text below followed by the country code.
HasLengthPrefix(errMsg) ==
  \E country \in DOMAIN CountryPhoneLengths :
     errMsg = "phone number length is invalid for country " \o country

\* mapValidationError reporting an unsupported country code under phoneNumber
mapValidationError_WrongKey(errMsg) ==
  IF errMsg = "phoneNumber is required"
  THEN "phoneNumber" :> "required value is missing"
  ELSE IF errMsg = "countryCode is required for numbers without country code"
  THEN "countryCode" :> "required value is missing"
  ELSE IF errMsg = "country code must be 2 characters (ISO 3166-1 alpha-2)"
  THEN "countryCode" :> "invalid format (must be ISO 3166-1 alpha-2)"
  ELSE IF errMsg = "phone number contains invalid characters"
  THEN "phoneNumber" :> "contains invalid characters"
  ELSE IF errMsg = "invalid spacing pattern"
  THEN "phoneNumber" :> "invalid spacing pattern"
  ELSE IF errMsg = "unsupported country dialing code"
  THEN "phoneNumber" :> "unsupported country dialing code"
  ELSE IF Len(errMsg) > 30 /\ HasLengthPrefix(errMsg)
  THEN "phoneNumber" :> "length is invalid for country"
  ELSE "phoneNumber" :> "invalid format"

mapValidationError(errMsg) ==
  IF errMsg = "phoneNumber is required"
  THEN "phoneNumber" :> "required value is missing"
  ELSE IF errMsg = "countryCode is required for numbers without country code"
  THEN "countryCode" :> "required value is missing"
  ELSE IF errMsg = "country code must be 2 characters (ISO 3166-1 alpha-2)"
  THEN "countryCode" :> "invalid format (must be ISO 3166-1 alpha-2)"
  ELSE IF errMsg = "unsupported country code"
  THEN "countryCode" :> "unsupported country code"
  ELSE IF errMsg = "phone number contains invalid characters"
  THEN "phoneNumber" :> "contains invalid characters"
  ELSE IF errMsg = "invalid spacing pattern"
  THEN "phoneNumber" :> "invalid spacing pattern"
  ELSE IF errMsg = "unsupported country dialing code"
  THEN "phoneNumber" :> "unsupported country dialing code"
  ELSE IF Len(errMsg) > 30 /\ HasLengthPrefix(errMsg)
  THEN "phoneNumber" :> "length is invalid for country"
  ELSE "phoneNumber" :> "invalid format"

StatusOK == 200

StatusBadRequest == 400

(***************************************************************************)
(* The inputs explored: every string of at most MaxShort characters over   *)
(* ShortAlphabet, and longer numbers made of an optional "+", a dialing    *)
(* code (or a prefix that is none), and up to MaxFill further digits, with *)
(* a separator character inserted at up to three places.                   *)
(***************************************************************************)
ShortAlphabet == {"1", "2", " ", "+", "-", "\t"}

ShortStrings == UNION {[1..n -> ShortAlphabet] : n \in 0..MaxShort}

DigitCycle == <<"2", "1", "2", "5", "6", "9", "0", "1", "2", "3">>

Fill(k) == [i \in 1..k |-> DigitCycle[((i - 1) % Len(DigitCycle)) + 1]]

Leads == {<<>>, <<"+">>}

Codes == DOMAIN DialingCodeToCountry \cup {<<>>, <<"3", "5">>, <<"7">>}

Separators == {" ", "\t", "-", "+"}

RECURSIVE Spaced(_, _, _)
Spaced(s, gaps, sep) ==
  IF s = <<>> THEN IF 0 \in gaps THEN <<sep>> ELSE <<>>
  ELSE Spaced(SubSeq(s, 1, Len(s) - 1), gaps, sep) \o <<s[Len(s)]>>
       \o (IF Len(s) \in gaps THEN <<sep>> ELSE <<>>)

Gaps(code) ==
  {{}, {Len(code)}, {Len(code), Len(code) + 3},
   {Len(code), Len(code) + 3, Len(code) + 6}}

LongNumbers ==
  {Lead \o Spaced(code \o Fill(k), gaps, sep) :
     Lead \in Leads, code \in Codes, k \in 0..MaxFill,
     gaps \in UNION {Gaps(c) : c \in Codes}, sep \in Separators}

PhoneInputs == ShortStrings \cup LongNumbers

CountryInputs == DOMAIN CountryPhoneLengths \cup {"", "ESP", "U", "XX"}

(***************************************************************************)
(* The state machine.  The validator keeps no state between calls, so a    *)
(* behaviour is one request: Init draws its two arguments, and the         *)
(* request is served either by a direct call of the validator or by the    *)
(* HTTP endpoint; a caller may then submit the canonical number it got     *)
(* back, without a country code.                                           *)
(***************************************************************************)
Init ==
  /\ op = "init"
  /\ phoneNumber \in PhoneInputs
  /\ countryCode \in CountryInputs
  /\ response = Nil
  /\ err = Nil
  /\ prev = Nil
  /\ httpStatus = 0
  /\ httpBody = Nil
  /\ tables = Tables
  /\ calls = <<>>

\* validator.ValidatePhoneNumber(phoneNumber, countryCode)
Validate ==
  /\ op = "init"
  /\ op' = "Validate"
  /\ response' = ValidatePhoneNumber(phoneNumber, countryCode).response
  /\ err' = ValidatePhoneNumber(phoneNumber, countryCode).err
  /\ UNCHANGED <<phoneNumber, countryCode, prev, httpStatus, httpBody>>
  /\ UNCHANGED <<tables, calls>>

\* GET /v1/phone-numbers?phoneNumber=...&countryCode=...
PhoneNumberLookup ==
  LET r == ValidatePhoneNumber(phoneNumber, countryCode)
  IN /\ op = "init"
     /\ op' = "Lookup"
     /\ response' = r.response
     /\ err' = r.err
     /\ httpStatus' = IF r.err # Nil THEN StatusBadRequest ELSE StatusOK
     /\ httpBody' = IF r.err # Nil
                    THEN <<[phoneNumber |-> phoneNumber,
                            error |-> mapValidationError(r.err[1])]>>
                    ELSE r.response
     /\ UNCHANGED <<phoneNumber, countryCode, prev, tables, calls>>

\* validator.ValidatePhoneNumber(r.PhoneNumber, "") on the result r of the
\* call before
Revalidate ==
  /\ op \in {"Validate", "Lookup"}
  /\ response # Nil
  /\ op' = "Revalidate"
  /\ phoneNumber' = response[1].PhoneNumber
  /\ countryCode' = ""
  /\ response' = ValidatePhoneNumber(response[1].PhoneNumber, "").response
  /\ err' = ValidatePhoneNumber(response[1].PhoneNumber, "").err
  /\ prev' = response
  /\ httpStatus' = 0
  /\ httpBody' = Nil
  /\ UNCHANGED <<tables, calls>>

Next ==
  \/ Validate
  \/ PhoneNumberLookup
  \/ Revalidate

Spec == Init /\ [][Next]_vars

TypeOK ==
  /\ op \in {"init", "Validate", "Revalidate", "Lookup"}
  /\ Len(response) <= 1
  /\ Len(err) <= 1
  /\ httpStatus \in {0, StatusOK, StatusBadRequest}

(***************************************************************************)
(* Concurrent calls.  NumCalls goroutines call ValidatePhoneNumber on the  *)
(* one validator; each call runs the statements of ValidatePhoneNumber in  *)
(* order, one statement a step, and a statement that looks at a country    *)
(* table reads the shared variable tables as it is at that step.           *)
(***************************************************************************)
\* hasDialingCode, reading the shared reverse table
hasDialingCodeIn(T, number) ==
  \E dialingCode \in DOMAIN T.DialingCodeToCountry :
     HasPrefix(number, dialingCode)

\* extractDialingCode, reading the shared reverse table
extractDialingCodeIn(T, number) ==
  IF Len(number) >= 3 /\ SliceTo(number, 3) \in DOMAIN T.DialingCodeToCountry
  THEN [dialingCode |-> SliceTo(number, 3), remaining |-> SliceFrom(number, 3),
        err |-> Nil]
  ELSE IF Len(number) >= 2 /\ SliceTo(number, 2) \in DOMAIN T.DialingCodeToCountry
  THEN [dialingCode |-> SliceTo(number, 2), remaining |-> SliceFrom(number, 2),
        err |-> Nil]
  ELSE IF Len(number) >= 1 /\ SliceTo(number, 1) \in DOMAIN T.DialingCodeToCountry
  THEN [dialingCode |-> SliceTo(number, 1), remaining |-> SliceFrom(number, 1),
        err |-> Nil]
  ELSE [dialingCode |-> <<>>, remaining |-> <<>>,
        err |-> New("unable to extract dialing code")]

\* parsePhoneNumber, reading the shared reverse table
parsePhoneNumberIn(T, number, providedCountryCode) ==
  LET hasPlus == HasPrefix(number, <<"+">>)
      digits == IF hasPlus THEN SliceFrom(number, 1) ELSE number
  IN IF hasPlus \/ hasDialingCodeIn(T, digits)
     THEN LET x == extractDialingCodeIn(T, digits)
          IN IF x.err # Nil THEN ParseError(x.err[1])
             ELSE IF x.dialingCode \notin DOMAIN T.DialingCodeToCountry
             THEN ParseError("unsupported country dialing code")
             ELSE ParseSplit(T.DialingCodeToCountry[x.dialingCode], x.remaining)
     ELSE IF providedCountryCode = ""
     THEN ParseError("countryCode is required for numbers without country code")
     ELSE ParseSplit(providedCountryCode, digits)

\* validateCountryCode, reading the shared length table
validateCountryCodeIn(T, country) ==
  IF Len(country) # 2
  THEN New("country code must be 2 characters (ISO 3166-1 alpha-2)")
  ELSE IF country \notin DOMAIN T.CountryPhoneLengths
  THEN New("unsupported country code")
  ELSE Nil

\* validatePhoneLength, reading the shared length table
validatePhoneLengthIn(T, nationalNumber, country) ==
  IF country \notin DOMAIN T.CountryPhoneLengths
  THEN New("unsupported country code")
  ELSE LET minLength == T.CountryPhoneLengths[country][1]
           maxLength == T.CountryPhoneLengths[country][2]
           actualLength == Len(nationalNumber)
       IN IF actualLength < minLength \/ actualLength > maxLength
          THEN New("phone number length is invalid for country " \o country)
          ELSE Nil

\* formatPhoneNumber, reading the shared dialing-code table
formatPhoneNumberIn(T, country, areaCode, localNumber) ==
  <<"+">> \o T.CountryDialingCodes[country] \o areaCode \o localNumber

\* the arguments of the concurrent calls: one pair for each way the call
\* can return
ConcArgs ==
  {<<Fill(10), "CA">>,
   <<Fill(10), "">>,
   <<Fill(10), "ESP">>,
   <<Fill(10), "XX">>,
   <<<<"+", "1">> \o Fill(10), "CA">>,
   <<<<"+", "1">> \o Fill(7), "">>,
   <<Spaced(<<"3", "4">> \o Fill(9), {2, 4}, " "), "">>,
   <<Spaced(<<"3", "4">> \o Fill(9), {2, 4, 7}, " "), "">>,
   <<Spaced(Fill(10), {3, 6}, "-"), "CA">>,
   <<<<>>, "CA">>}

\* a call that has not started: its arguments and empty locals
NewCall(p, c) ==
  [pc |-> "start", phoneNumber |-> p, countryCode |-> c, cleanedNumber |-> <<>>,
   extractedCountryCode |-> "", areaCode |-> <<>>, localNumber |-> <<>>,
   response |-> Nil, err |-> Nil]

InitConc ==
  /\ op = "init"
  /\ phoneNumber = <<>>
  /\ countryCode = ""
  /\ response = Nil
  /\ err = Nil
  /\ prev = Nil
  /\ httpStatus = 0
  /\ httpBody = Nil
  /\ tables = Tables
  /\ calls \in [1..NumCalls -> {NewCall(a[1], a[2]) : a \in ConcArgs}]

main == <<op, phoneNumber, countryCode, response, err, prev, httpStatus, httpBody>>

\* return nil, e
Return(i, e) ==
  calls' = [calls EXCEPT ![i].pc = "done", ![i].err = e]

\* if phoneNumber == "" { return nil, errors.New("phoneNumber is required") }
CallPresence(i) ==
  /\ calls[i].pc = "start"
  /\ IF calls[i].phoneNumber = <<>>
     THEN Return(i, New("phoneNumber is required"))
     ELSE calls' = [calls EXCEPT ![i].pc = "spacing"]
  /\ UNCHANGED <<main, tables>>

\* if err := v.validateSpacing(phoneNumber); err != nil { return nil, err }
CallSpacing(i) ==
  /\ calls[i].pc = "spacing"
  /\ IF validateSpacing(calls[i].phoneNumber) # Nil
     THEN Return(i, validateSpacing(calls[i].phoneNumber))
     ELSE calls' = [calls EXCEPT ![i].pc = "clean"]
  /\ UNCHANGED <<main, tables>>

\* cleanedNumber, err := v.cleanPhoneNumber(phoneNumber)
CallClean(i) ==
  /\ calls[i].pc = "clean"
  /\ LET c == cleanPhoneNumber(calls[i].phoneNumber)
     IN IF c.err # Nil
        THEN Return(i, c.err)
        ELSE calls' = [calls EXCEPT ![i].pc = "parse",
                                    ![i].cleanedNumber = c.cleaned]
  /\ UNCHANGED <<main, tables>>

\* the parse step writing the country it resolved into the reverse table,
\* under the first character of the number
CallParse_Caching(i) ==
  /\ calls[i].pc = "parse"
  /\ LET p == parsePhoneNumberIn(tables, calls[i].cleanedNumber,
                                 calls[i].countryCode)
     IN /\ IF p.err # Nil
           THEN Return(i, p.err)
           ELSE calls' = [calls EXCEPT ![i].pc = "country",
                                       ![i].extractedCountryCode = p.countryCode,
                                       ![i].areaCode = p.areaCode,
                                       ![i].localNumber = p.localNumber]
        /\ tables' =
             IF p.err # Nil THEN tables
             ELSE [tables EXCEPT !.DialingCodeToCountry =
                     (SliceTo(calls[i].cleanedNumber, 1) :> p.countryCode) @@ @]
  /\ UNCHANGED main

\* extractedCountryCode, areaCode, localNumber, err :=
\*   v.parsePhoneNumber(cleanedNumber, countryCode)
CallParse(i) ==
  /\ calls[i].pc = "parse"
  /\ LET p == parsePhoneNumberIn(tables, calls[i].cleanedNumber,
                                 calls[i].countryCode)
     IN IF p.err # Nil
        THEN Return(i, p.err)
        ELSE calls' = [calls EXCEPT ![i].pc = "country",
                                    ![i].extractedCountryCode = p.countryCode,
                                    ![i].areaCode = p.areaCode,
                                    ![i].localNumber = p.localNumber]
  /\ UNCHANGED <<main, tables>>

\* if err := v.validateCountryCode(extractedCountryCode); err != nil
CallCountry(i) ==
  /\ calls[i].pc = "country"
  /\ LET e == validateCountryCodeIn(tables, calls[i].extractedCountryCode)
     IN IF e # Nil
        THEN Return(i, e)
        ELSE calls' = [calls EXCEPT ![i].pc = "length"]
  /\ UNCHANGED <<main, tables>>

\* if err := v.validatePhoneLength(areaCode+localNumber, extractedCountryCode)
CallLength(i) ==
  /\ calls[i].pc = "length"
  /\ LET e == validatePhoneLengthIn(tables,
                  calls[i].areaCode \o calls[i].localNumber,
                  calls[i].extractedCountryCode)
     IN IF e # Nil
        THEN Return(i, e)
        ELSE calls' = [calls EXCEPT ![i].pc = "format"]
  /\ UNCHANGED <<main, tables>>

\* response := &PhoneValidationResponse{...}; return response, nil
CallFormat(i) ==
  /\ calls[i].pc = "format"
  /\ calls' = [calls EXCEPT
       ![i].pc = "done",
       ![i].response =
          <<[PhoneNumber |-> formatPhoneNumberIn(tables,
                               calls[i].extractedCountryCode,
                               calls[i].areaCode, calls[i].localNumber),
             CountryCode |-> calls[i].extractedCountryCode,
             AreaCode |-> calls[i].areaCode,
             LocalPhoneNumber |-> calls[i].localNumber]>>]
  /\ UNCHANGED <<main, tables>>

NextConc ==
  \E i \in 1..NumCalls :
     \/ CallPresence(i)
     \/ CallSpacing(i)
     \/ CallClean(i)
     \/ CallParse(i)
     \/ CallCountry(i)
     \/ CallLength(i)
     \/ CallFormat(i)

SpecConc == InitConc /\ [][NextConc]_vars

(***************************************************************************)
(* Vocabulary of the properties.                                           *)
(***************************************************************************)
Called == op # "init"

Succeeded == err = Nil /\ response # Nil

ErrorIs(msg) == err = <<msg>> /\ response = Nil

Supported == {"US", "CA", "MX", "ES", "PT", "GB", "FR", "DE", "IT", "BR"}

KnownDialingCodes == {CountryDialingCodes[C] : C \in DOMAIN CountryDialingCodes}

StartsWithKnownCode(d) == \E code \in KnownDialingCodes : HasPrefix(d, code)

SpaceCount(s) == Cardinality({i \in 1..Len(s) : s[i] = " "})

NoSpaces(s) == SelectSeq(s, LAMBDA x : x # " ")

DigitsOnly(s) == \A i \in 1..Len(s) : s[i] \in ReDigit

\* the inclusive length range the specification gives for a country
StatedRange(C) ==
  IF C \in {"US", "CA", "MX", "FR"} THEN 10..10
  ELSE IF C \in {"ES", "PT"} THEN 9..9
  ELSE IF C \in {"GB", "BR"} THEN 10..11
  ELSE IF C = "DE" THEN 10..12
  ELSE 9..11

\* the input passes the presence, spacing and character checks
PassesChecks(s) == s # <<>> /\ SpaceCount(s) # 3 /\ validChars(s)

\* C1 (as stated): a successful result r round-trips: validating r.PhoneNumber
\* with no country code succeeds with the same country, area code and local
\* number as r.
C1_RoundTrip ==
  op = "Revalidate" =>
    /\ Succeeded
    /\ response[1].CountryCode = prev[1].CountryCode
    /\ response[1].AreaCode = prev[1].AreaCode
    /\ response[1].LocalPhoneNumber = prev[1].LocalPhoneNumber

IsNational(n, C) == C \in Supported /\ DigitsOnly(n) /\ Len(n) \in StatedRange(C)

NationalResult(n, C) ==
  /\ Succeeded
  /\ response[1].CountryCode = C
  /\ response[1].AreaCode \o response[1].LocalPhoneNumber = n
  /\ response[1].PhoneNumber = <<"+">> \o CountryDialingCodes[C] \o n

\* C2 (as stated): every digits-only national number n whose length is in the
\* range of the supplied supported country C validates to country C, with
\* area + local = n and the canonical number "+" + dialing code of C + n.
C2_Original ==
  Called /\ IsNational(phoneNumber, countryCode)
    => NationalResult(phoneNumber, countryCode)

\* C2 (amended): the same, for the national numbers n that do not themselves
\* start with a known dialing code.
C2_NationalNumber ==
  Called /\ IsNational(phoneNumber, countryCode)
         /\ ~StartsWithKnownCode(phoneNumber)
    => NationalResult(phoneNumber, countryCode)

C2_Witness ==
  /\ Called /\ countryCode = "GB" /\ Len(phoneNumber) = 11
  /\ IsNational(phoneNumber, countryCode) /\ ~StartsWithKnownCode(phoneNumber)
  /\ Succeeded

BadCountry(c) == c # "" /\ (Len(c) # 2 \/ c \notin Supported)

\* the number without its spaces and without an optional leading "+"
Digits(s) ==
  IF HasPrefix(NoSpaces(s), <<"+">>) THEN Tail(NoSpaces(s)) ELSE NoSpaces(s)

\* C3 (as stated): a call with a non-empty supplied country code that is not
\* 2 characters long or not supported never succeeds.
C3_Original == Called /\ BadCountry(countryCode) => err # Nil

\* C3 (amended): such a call never succeeds when the number, without spaces
\* and optional leading "+", does not start with a known dialing code: it
\* fails with the 2-character error for a wrong length and otherwise with the
\* unsupported-country-code error, unless an earlier step already failed.
C3_BadCountryCode ==
  Called /\ BadCountry(countryCode) /\ ~StartsWithKnownCode(Digits(phoneNumber))
    => /\ response = Nil
       /\ err # Nil
       /\ \/ err[1] \in {"phoneNumber is required", "invalid spacing pattern",
                         "phone number contains invalid characters",
                         "unable to extract dialing code"}
          \/ /\ Len(countryCode) # 2
             /\ err[1] = "country code must be 2 characters (ISO 3166-1 alpha-2)"
          \/ /\ Len(countryCode) = 2
             /\ err[1] = "unsupported country code"

C3_Witness ==
  /\ Called /\ countryCode = "U" /\ ~StartsWithKnownCode(Digits(phoneNumber))
  /\ ErrorIs("country code must be 2 characters (ISO 3166-1 alpha-2)")

NoCodeNoCountry ==
  /\ PassesChecks(phoneNumber)
  /\ ~HasPrefix(NoSpaces(phoneNumber), <<"+">>)
  /\ ~StartsWithKnownCode(NoSpaces(phoneNumber))
  /\ countryCode = ""

\* C4: an input that passes the presence, spacing and character checks, has
\* no leading "+" and starts with no known dialing code fails, with an empty
\* country code, with exactly "countryCode is required for numbers without
\* country code", which the HTTP layer renders as countryCode: "required
\* value is missing".
C4_CountryCodeRequired ==
  Called /\ NoCodeNoCountry
    => /\ ErrorIs("countryCode is required for numbers without country code")
       /\ op = "Lookup" =>
            /\ httpStatus = StatusBadRequest
            /\ httpBody[1].error = ("countryCode" :> "required value is missing")

C4_Witness ==
  /\ op = "Lookup" /\ NoCodeNoCountry /\ Len(phoneNumber) = 10
  /\ httpBody[1].error = ("countryCode" :> "required value is missing")

\* C5: a non-empty phone number is rejected with "invalid spacing pattern"
\* exactly when splitting it on single spaces gives 4 parts (it has 3 spaces),
\* whatever the country code and the other characters.
C5_SpacingRule ==
  Called =>
    ((phoneNumber # <<>> /\ SpaceCount(phoneNumber) + 1 = 4)
       <=> ErrorIs("invalid spacing pattern"))

C5_Witness ==
  /\ Called /\ SpaceCount(phoneNumber) = 3 /\ countryCode = "XX"
  /\ \E i \in 1..Len(phoneNumber) : phoneNumber[i] = "-"
  /\ ErrorIs("invalid spacing pattern")

\* C6 (as stated): a non-empty phone number that the 4-part rule does not
\* reject and that has a character other than a decimal digit, the space or
\* "+" is rejected with "phone number contains invalid characters".
C6_InvalidCharacters ==
  Called /\ phoneNumber # <<>> /\ SpaceCount(phoneNumber) # 3
         /\ (\E i \in 1..Len(phoneNumber) :
                phoneNumber[i] \notin ReDigit \cup {" ", "+"})
    => ErrorIs("phone number contains invalid characters")

\* C7 (as stated): a normalized number with a leading "+" whose digits start
\* with no known dialing code fails with "unsupported country dialing code",
\* rendered by the HTTP layer as phoneNumber: "unsupported country dialing
\* code".
C7_UnknownDialingCode ==
  Called /\ PassesChecks(phoneNumber)
         /\ HasPrefix(NoSpaces(phoneNumber), <<"+">>)
         /\ ~StartsWithKnownCode(Digits(phoneNumber))
    => /\ ErrorIs("unsupported country dialing code")
       /\ op = "Lookup" =>
            httpBody[1].error = ("phoneNumber" :> "unsupported country dialing code")

\* the country the call resolves, if it resolves a supported one
Resolved ==
  LET p == parsePhoneNumber(NoSpaces(phoneNumber), countryCode)
  IN IF PassesChecks(phoneNumber) /\ p.err = Nil /\ p.countryCode \in Supported
     THEN <<[country |-> p.countryCode, national |-> p.areaCode \o p.localNumber]>>
     ELSE <<>>

\* C8: once a supported country C is resolved, the call succeeds if and only
\* if the length of the national number is in C's stated range, and otherwise
\* fails with "phone number length is invalid for country " followed by C.
C8_LengthRange ==
  Called /\ Resolved # <<>> =>
    LET C == Resolved[1].country
        n == Resolved[1].national
    IN /\ Succeeded <=> Len(n) \in StatedRange(C)
       /\ Succeeded =>
            response[1].AreaCode \o response[1].LocalPhoneNumber = n
       /\ ~Succeeded =>
            ErrorIs("phone number length is invalid for country " \o C)

C8_Witness ==
  /\ Called /\ Resolved # <<>> /\ countryCode = "IT"
  /\ Len(Resolved[1].national) = 12
  /\ ErrorIs("phone number length is invalid for country IT")

\* C9: every call ends either with a nil error and a result whose four fields
\* are non-empty and satisfy PhoneNumber = "+" + dialing code of CountryCode +
\* AreaCode + LocalPhoneNumber, or with an error and a nil result.
C9_Outcome ==
  Called =>
    \/ /\ err = Nil /\ Len(response) = 1
       /\ response[1].PhoneNumber # <<>>
       /\ response[1].CountryCode # ""
       /\ response[1].AreaCode # <<>>
       /\ response[1].LocalPhoneNumber # <<>>
       /\ response[1].CountryCode \in Supported
       /\ response[1].PhoneNumber =
            <<"+">> \o CountryDialingCodes[response[1].CountryCode]
                    \o response[1].AreaCode \o response[1].LocalPhoneNumber
    \/ /\ Len(err) = 1 /\ err[1] # "" /\ response = Nil

C9_Witness ==
  /\ Called /\ Succeeded /\ response[1].CountryCode = "PT"
  /\ Len(response[1].PhoneNumber) = 13

\* C10: for a digit string d that starts with a known dialing code, and any
\* country code c, ValidatePhoneNumber(d, c) and ValidatePhoneNumber("+" + d, c)
\* have the same outcome.
C10_PlusOptional ==
  Called /\ DigitsOnly(phoneNumber) /\ StartsWithKnownCode(phoneNumber)
    => ValidatePhoneNumber(<<"+">> \o phoneNumber, countryCode)
         = [response |-> response, err |-> err]

C10_Witness ==
  /\ op = "Validate" /\ DigitsOnly(phoneNumber)
  /\ StartsWithKnownCode(phoneNumber) /\ countryCode = "ESP" /\ Succeeded

Outcome == [response |-> response, err |-> err]

\* C11 (as stated): for a non-empty phone number s that the 4-part rule does
\* not reject, ValidatePhoneNumber(s, c) has the same outcome as
\* ValidatePhoneNumber(s', c), s' being s without its spaces.
C11_Original ==
  Called /\ phoneNumber # <<>> /\ SpaceCount(phoneNumber) # 3
    => ValidatePhoneNumber(NoSpaces(phoneNumber), countryCode) = Outcome

\* C11 (amended): the same, for the numbers s that have at least one
\* character other than the space.
C11_SpacesIgnored ==
  Called /\ NoSpaces(phoneNumber) # <<>> /\ SpaceCount(phoneNumber) # 3
    => ValidatePhoneNumber(NoSpaces(phoneNumber), countryCode) = Outcome

C11_Witness ==
  /\ Called /\ SpaceCount(phoneNumber) = 2 /\ Succeeded
  /\ response[1].CountryCode = "ES"

CountryCodeReasons ==
  {"countryCode is required for numbers without country code",
   "country code must be 2 characters (ISO 3166-1 alpha-2)",
   "unsupported country code"}

\* C12: a GET /v1/phone-numbers request whose validation fails is answered
\* with status 400, the phoneNumber parameter as received, and an error object
\* with exactly one key and a non-empty message, the key being "countryCode"
\* for the three country-code reasons and "phoneNumber" for every other; one
\* whose validation succeeds is answered with status 200 and the four fields
\* of the validator's result.
C12_HttpResponse ==
  op = "Lookup" =>
    IF err # Nil
    THEN /\ httpStatus = 400
         /\ Len(httpBody) = 1
         /\ httpBody[1].phoneNumber = phoneNumber
         /\ DOMAIN httpBody[1].error =
              IF err[1] \in CountryCodeReasons THEN {"countryCode"}
              ELSE {"phoneNumber"}
         /\ \A k \in DOMAIN httpBody[1].error : httpBody[1].error[k] # ""
    ELSE /\ httpStatus = 200
         /\ httpBody = response
         /\ DOMAIN httpBody[1] =
              {"PhoneNumber", "CountryCode", "AreaCode", "LocalPhoneNumber"}

C12_Witness ==
  /\ op = "Lookup" /\ httpStatus = 400 /\ countryCode = "XX"
  /\ err = <<"unsupported country code">>
  /\ httpBody[1].error = ("countryCode" :> "unsupported country code")

\* the longest known dialing code that is a prefix of d
LongestCode(d) ==
  CHOOSE code \in KnownDialingCodes :
    /\ HasPrefix(d, code)
    /\ \A other \in KnownDialingCodes :
         HasPrefix(d, other) => Len(other) <= Len(code)

\* the country of the reverse table, as the specification lists it
StatedCountryOf(code) ==
  CASE code = <<"1">> -> "US"
    [] code = <<"5", "2">> -> "MX"
    [] code = <<"3", "4">> -> "ES"
    [] code = <<"3", "5", "1">> -> "PT"
    [] code = <<"4", "4">> -> "GB"
    [] code = <<"3", "3">> -> "FR"
    [] code = <<"4", "9">> -> "DE"
    [] code = <<"3", "9">> -> "IT"
    [] code = <<"5", "5">> -> "BR"

DialingCodeDetected ==
  PassesChecks(phoneNumber) /\ StartsWithKnownCode(Digits(phoneNumber))

\* C14: when the number, without spaces and optional leading "+", starts with
\* a known dialing code, the call resolves the country of the longest known
\* code that is a prefix of it and takes the rest as the national number,
\* whatever country code the caller supplied: it succeeds with that country
\* and area + local = the rest, or fails with the length error of that country.
C14_LongestMatch ==
  Called /\ DialingCodeDetected =>
    LET d == Digits(phoneNumber)
        code == LongestCode(d)
        rest == SubSeq(d, Len(code) + 1, Len(d))
        x == extractDialingCode(d)
    IN /\ x.err = Nil /\ x.dialingCode = code /\ x.remaining = rest
       /\ IF Len(rest) \in StatedRange(StatedCountryOf(code))
          THEN /\ Succeeded
               /\ response[1].CountryCode = StatedCountryOf(code)
               /\ response[1].AreaCode \o response[1].LocalPhoneNumber = rest
          ELSE ErrorIs("phone number length is invalid for country "
                         \o StatedCountryOf(code))

C14_Witness ==
  /\ Called /\ DialingCodeDetected /\ countryCode = "FR" /\ Succeeded
  /\ ~HasPrefix(phoneNumber, <<"+">>)
  /\ response[1].CountryCode = "PT"

\* the length of the area code the specification gives for a national number
\* of n characters of country C
StatedAreaLength(C, n) ==
  IF n < 3 THEN 0
  ELSE IF C \in {"US", "CA", "MX", "DE"} THEN 3
  ELSE IF C \in {"ES", "PT", "FR", "IT", "BR"} THEN 2
  ELSE IF n >= 4 THEN 4 ELSE 3

\* the national number of the call: the digits after the dialing code, or all
\* of them when there is none
National ==
  LET d == Digits(phoneNumber)
  IN IF StartsWithKnownCode(d)
     THEN SubSeq(d, Len(LongestCode(d)) + 1, Len(d))
     ELSE d

\* C15: for a supported country C the area code is the prefix of the national
\* number n of the stated length (0 if n has fewer than 3 characters, else 3
\* for US, CA, MX, DE, 2 for ES, PT, FR, IT, BR, and for GB 4 if n has at
\* least 4 characters and 3 otherwise) and the local number is the rest; a
\* successful result has an area code of 3, 2 or 4 characters accordingly.
C15_Split ==
  Called /\ Resolved # <<>> =>
    LET C == Resolved[1].country
        n == National
        k == StatedAreaLength(C, Len(n))
        p == parsePhoneNumber(NoSpaces(phoneNumber), countryCode)
    IN /\ p.areaCode = SubSeq(n, 1, k)
       /\ p.localNumber = SubSeq(n, k + 1, Len(n))
       /\ Succeeded =>
            /\ response[1].AreaCode = SubSeq(n, 1, k)
            /\ response[1].LocalPhoneNumber = SubSeq(n, k + 1, Len(n))
            /\ Len(response[1].AreaCode) =
                 IF C \in {"US", "CA", "MX", "DE"} THEN 3
                 ELSE IF C = "GB" THEN 4 ELSE 2

C15_Witness ==
  /\ Called /\ Resolved # <<>> /\ Resolved[1].country = "GB" /\ Succeeded
  /\ Len(response[1].AreaCode) = 4 /\ Len(response[1].LocalPhoneNumber) = 7

\* the error of the first failing step, <<>> if no step fails
FirstFailure ==
  LET n == NoSpaces(phoneNumber)
      plus == HasPrefix(n, <<"+">>)
      d == Digits(phoneNumber)
      C == IF StartsWithKnownCode(d) THEN StatedCountryOf(LongestCode(d))
           ELSE countryCode
  IN IF phoneNumber = <<>> THEN <<"phoneNumber is required">>
     ELSE IF SpaceCount(phoneNumber) = 3 THEN <<"invalid spacing pattern">>
     ELSE IF \E i \in 1..Len(phoneNumber) :
               phoneNumber[i] \notin ReDigit \cup ReSpace \cup {"+"}
     THEN <<"phone number contains invalid characters">>
     ELSE IF plus /\ ~StartsWithKnownCode(d)
     THEN <<"unable to extract dialing code">>
     ELSE IF ~StartsWithKnownCode(d) /\ countryCode = ""
     THEN <<"countryCode is required for numbers without country code">>
     ELSE IF Len(C) # 2
     THEN <<"country code must be 2 characters (ISO 3166-1 alpha-2)">>
     ELSE IF C \notin Supported THEN <<"unsupported country code">>
     ELSE IF Len(National) \notin StatedRange(C)
     THEN <<"phone number length is invalid for country " \o C>>
     ELSE <<>>

\* C16: the error of a call is the error of the first failing step in the
\* order presence, 4-part spacing rule, characters, dialing-code and country
\* resolution, country-code length, country-code support, national-number
\* length, and the call succeeds when no step fails; so an empty number fails
\* with "phoneNumber is required" for every country code, and a length error
\* is only reported for a supported 2-character country.
C16_ErrorPriority ==
  Called =>
    /\ err = FirstFailure
    /\ Succeeded <=> FirstFailure = <<>>
    /\ phoneNumber = <<>> => ErrorIs("phoneNumber is required")
    /\ (\E C \in CountryInputs :
          err = <<"phone number length is invalid for country " \o C>>)
         => \E C \in Supported :
              /\ Len(C) = 2
              /\ err = <<"phone number length is invalid for country " \o C>>

C16_Witness ==
  /\ Called /\ countryCode = "ESP"
  /\ \E i \in 1..Len(phoneNumber) : phoneNumber[i] = "-"
  /\ SpaceCount(phoneNumber) = 2
  /\ ErrorIs("phone number contains invalid characters")

\* C17 (as stated): in a successful result AreaCode and LocalPhoneNumber
\* consist of decimal digits only, and PhoneNumber is "+" followed by decimal
\* digits only.
C17_DigitsOnly ==
  Called /\ Succeeded =>
    /\ DigitsOnly(response[1].AreaCode)
    /\ DigitsOnly(response[1].LocalPhoneNumber)
    /\ Head(response[1].PhoneNumber) = "+"
    /\ DigitsOnly(Tail(response[1].PhoneNumber))

\* C13: in every interleaving of concurrent ValidatePhoneNumber calls the
\* three country tables keep their initial contents, and every call that has
\* returned has returned the outcome the call has when run alone with the
\* same two arguments.
C13_Stateless ==
  /\ tables = Tables
  /\ \A i \in DOMAIN calls :
       calls[i].pc = "done" =>
         [response |-> calls[i].response, err |-> calls[i].err]
           = ValidatePhoneNumber(calls[i].phoneNumber, calls[i].countryCode)

C13_Witness ==
  /\ DOMAIN calls = 1..NumCalls
  /\ \A i \in DOMAIN calls : calls[i].pc = "done"
  /\ calls[1].response # Nil /\ calls[1].response[1].CountryCode = "CA"
  /\ calls[2].err = <<"countryCode is required for numbers without country code">>
  /\ calls[1].phoneNumber = calls[2].phoneNumber

====
